---------------------------- MODULE Spec2Model ----------------------------
(***************************************************************************)
(* Model of canpacis/scanner: the structd decoding engine (Decoder.Decode), *)
(* the coercion function DefaultCast with its strconv-based parse helper,   *)
(* the error taxonomy, the value sources of scanner.go and Pipe.Scan.       *)
(*                                                                          *)
(* Representation.  A Go value of dynamic type t is the record              *)
(* [t |-> type name, v |-> payload].  Text is a sequence of one-character   *)
(* strings.  An integer is [neg, mag] with mag its magnitude in canonical   *)
(* decimal digits: the 64-bit limits exceed the model checker's integers,   *)
(* so range checks compare digit sequences.  A slice is [nil, elems].       *)
(***************************************************************************)
EXTENDS Integers, Sequences, FiniteSets, TLC

VARIABLES pc, target, fields, rec, rec0, src, idx, err, gets, from, to, out, back,
          pipe, pos, hist

vars == <<pc, target, fields, rec, rec0, src, idx, err, gets, from, to, out, back,
          pipe, pos, hist>>

\* ------------------------------------------------------------------ bounds
\* Number of fields of the record Decode walks.
NumFields == 3
\* Longest text enumerated exhaustively as a cast input.
MaxLen == 3

\* ------------------------------------------------------------------- types
IntTypes == {"int", "int8", "int16", "int32", "int64"}
UintTypes == {"uint", "uint8", "uint16", "uint32", "uint64"}
FloatTypes == {"float32", "float64"}

\* The twelve types of the numbers constraint, which are also the types the
\* numeric case of DefaultCast's type switch lists.
numbers == IntTypes \cup UintTypes \cup FloatTypes

\* User-declared types with the Unmarshaler capability on their pointer.
\* Role is the test suite's type (it accepts every text); Grade is a type
\* whose UnmarshalString rejects some texts.
UnmarshalerTypes == {"Role", "Grade"}

\* User-declared named types over a built-in kind, without methods.
NamedKind == [Level |-> "uint8", Label |-> "string", Flag |-> "bool"]

NamedTypes == DOMAIN NamedKind

SliceElem == [x \in {"[]string", "[]int", "[]uint8", "[]bool", "[]Role",
                     "[]Grade", "[]Label", "[]Level", "[]Plain"} |->
                CASE x = "[]string" -> "string"
                  [] x = "[]int" -> "int"
                  [] x = "[]uint8" -> "uint8"
                  [] x = "[]bool" -> "bool"
                  [] x = "[]Role" -> "Role"
                  [] x = "[]Grade" -> "Grade"
                  [] x = "[]Label" -> "Label"
                  [] x = "[]Level" -> "Level"
                  [] x = "[]Plain" -> "Plain"]

SliceTypes == DOMAIN SliceElem

PtrElem == [x \in {"*Params", "*int", "**Params", "**int", "*Role"} |->
              CASE x = "*Params" -> "Params"
                [] x = "*int" -> "int"
                [] x = "**Params" -> "*Params"
                [] x = "**int" -> "*int"
                [] x = "*Role" -> "Role"]

PtrTypes == DOMAIN PtrElem

\* Params is the record type; Plain is a struct without methods; file is
\* the test suite's multipart file implementation.
StructTypes == {"Params", "Role", "Grade", "Plain", "file"}

InterfaceTypes == {"multipart.File", "any"}

\* reflect.Type.Kind
Kind(t) ==
    CASE t \in numbers \cup {"string", "bool"} -> t
      [] t \in NamedTypes -> NamedKind[t]
      [] t \in SliceTypes -> "slice"
      [] t \in PtrTypes -> "ptr"
      [] t \in StructTypes -> "struct"
      [] t \in InterfaceTypes -> "interface"
      [] OTHER -> "invalid"

\* reflect.Type.Elem
Elem(t) == IF t \in SliceTypes THEN SliceElem[t] ELSE PtrElem[t]

\* reflect.Type.Name: the empty name for an unnamed (composite) type.
TypeName(t) == IF t \in SliceTypes \cup PtrTypes THEN "" ELSE t

\* reflect.Type.Bits; int and uint are 64 bits wide on the modelled build.
Bits(t) ==
    CASE Kind(t) \in {"int8", "uint8"} -> 8
      [] Kind(t) \in {"int16", "uint16"} -> 16
      [] Kind(t) \in {"int32", "uint32", "float32"} -> 32
      [] OTHER -> 64

\* Whether *t implements Unmarshaler (the type assertion of DefaultCast).
ImplementsUnmarshaler(t) == t \in UnmarshalerTypes

\* reflect.Type.AssignableTo for the types of the model: identical types,
\* or an interface type the value's type implements.
AssignableTo(tt, ft) ==
    \/ tt = ft
    \/ ft = "any"
    \/ ft = "multipart.File" /\ tt = "file"

\* ------------------------------------------------------------------ values
Val(t, v) == [t |-> t, v |-> v]

\* The nil interface value.
Nil == [t |-> "nil", v |-> <<>>]

Digits == {"0", "1", "2", "3", "4", "5", "6", "7", "8", "9"}

DigitVal == ("0" :> 0) @@ ("1" :> 1) @@ ("2" :> 2) @@ ("3" :> 3) @@ ("4" :> 4)
            @@ ("5" :> 5) @@ ("6" :> 6) @@ ("7" :> 7) @@ ("8" :> 8) @@ ("9" :> 9)

ZeroMag == <<"0">>

IntPayload(neg, mag) == [neg |-> neg /\ mag # ZeroMag, mag |-> mag]

FloatPayload(neg, mag, frac) == [neg |-> neg, mag |-> mag, frac |-> frac]

SlicePayload(elems) == [nil |-> FALSE, elems |-> elems]

NilSlice == [nil |-> TRUE, elems |-> <<>>]

\* The zero value of a type (reflect.Zero / a fresh variable of the type).
Zero(t) ==
    CASE Kind(t) = "string" -> Val(t, <<>>)
      [] Kind(t) = "bool" -> Val(t, FALSE)
      [] Kind(t) \in IntTypes \cup UintTypes -> Val(t, IntPayload(FALSE, ZeroMag))
      [] Kind(t) \in FloatTypes -> Val(t, FloatPayload(FALSE, ZeroMag, <<>>))
      [] Kind(t) = "slice" -> Val(t, NilSlice)
      [] Kind(t) = "struct" -> Val(t, [Name |-> <<>>])
      [] OTHER -> Nil

\* reflect.Value.IsZero
IsZero(x) ==
    CASE Kind(x.t) = "string" -> x.v = <<>>
      [] Kind(x.t) = "bool" -> ~x.v
      [] Kind(x.t) \in IntTypes \cup UintTypes -> x.v.mag = ZeroMag
      [] Kind(x.t) \in FloatTypes ->
            ~x.v.neg /\ x.v.mag = ZeroMag /\ x.v.frac = <<>>
      [] Kind(x.t) = "slice" -> x.v.nil
      [] Kind(x.t) = "struct" -> x.v.Name = <<>>
      [] OTHER -> TRUE

\* ------------------------------------------------------------------ errors
NoError == [kind |-> "nil"]

ErrUnsupported == [kind |-> "ErrUnsupported"]

\* strconv.NumError
NumError(fn, num, e) == [kind |-> "NumError", func |-> fn, num |-> num, err |-> e]

\* structd.CastError
CastError(e) == [kind |-> "CastError", err |-> e]

\* wrapCastErr
wrapCastErr(e) == IF e = NoError THEN NoError ELSE CastError(e)

\* structd.UnmarshalerError
UnmarshalerError(e, value, t) ==
    [kind |-> "UnmarshalerError", err |-> e, value |-> value, unmarshaler |-> t]

\* structd.InvalidUnmarshalError
InvalidUnmarshalError(t) == [kind |-> "InvalidUnmarshalError", type |-> t]

\* InvalidUnmarshalError.Error: the description the message gives of the
\* violation, followed by the type the message names (nothing follows for
\* the nil type).
Error(e) ==
    IF e.type = "nil" THEN <<"nil">>
    ELSE IF Kind(e.type) # "ptr" THEN <<"non-pointer", e.type>>
    ELSE IF Kind(Elem(e.type)) # "struct" THEN <<"non-struct", e.type>>
    ELSE <<"nil", e.type>>

\* A variant of UnmarshalTypeError with the struct and field names exchanged.
UnmarshalTypeErrorSwapped(value, t, struct, field) ==
    [kind |-> "UnmarshalTypeError", value |-> value, type |-> t,
     struct |-> field, field |-> struct]

\* structd.UnmarshalTypeError
UnmarshalTypeError(value, t, struct, field) ==
    [kind |-> "UnmarshalTypeError", value |-> value, type |-> t,
     struct |-> struct, field |-> field]


\* ----------------------------------------------------------------- strconv
RECURSIVE StripZeros(_)
\* A digit sequence without its leading zeros (one digit is always kept).
StripZeros(ds) ==
    IF Len(ds) > 1 /\ ds[1] = "0" THEN StripZeros(Tail(ds)) ELSE ds

\* a <= b for magnitudes in canonical decimal digits.
MagLE(a, b) ==
    \/ Len(a) < Len(b)
    \/ /\ Len(a) = Len(b)
       /\ LET d == {k \in 1..Len(a) : a[k] # b[k]}
          IN \/ d = {}
             \/ LET m == CHOOSE k \in d : \A j \in d : k <= j
                IN DigitVal[a[m]] < DigitVal[b[m]]

\* 1<<bitSize - 1, the largest unsigned value of a width.
MaxUintMag(bits) ==
    CASE bits = 8 -> <<"2", "5", "5">>
      [] bits = 16 -> <<"6", "5", "5", "3", "5">>
      [] bits = 32 -> <<"4", "2", "9", "4", "9", "6", "7", "2", "9", "5">>
      [] OTHER -> <<"1", "8", "4", "4", "6", "7", "4", "4", "0", "7", "3", "7",
                    "0", "9", "5", "5", "1", "6", "1", "5">>

\* 1<<(bitSize-1) - 1, the largest signed value of a width.
MaxIntMag(bits) ==
    CASE bits = 8 -> <<"1", "2", "7">>
      [] bits = 16 -> <<"3", "2", "7", "6", "7">>
      [] bits = 32 -> <<"2", "1", "4", "7", "4", "8", "3", "6", "4", "7">>
      [] OTHER -> <<"9", "2", "2", "3", "3", "7", "2", "0", "3", "6", "8", "5",
                    "4", "7", "7", "5", "8", "0", "7">>

\* 1<<(bitSize-1), the magnitude of the smallest signed value of a width.
MinIntMag(bits) ==
    CASE bits = 8 -> <<"1", "2", "8">>
      [] bits = 16 -> <<"3", "2", "7", "6", "8">>
      [] bits = 32 -> <<"2", "1", "4", "7", "4", "8", "3", "6", "4", "8">>
      [] OTHER -> <<"9", "2", "2", "3", "3", "7", "2", "0", "3", "6", "8", "5",
                    "4", "7", "7", "5", "8", "0", "8">>

\* strconv.ParseUint(s, 10, bits): the text is scanned left to right; the
\* first character that is no digit is a syntax error, the first prefix
\* whose value exceeds the width is a range error (the value returned with
\* a range error is the largest value of the width).
ParseUint(s, bits) ==
    IF s = <<>> THEN [n |-> ZeroMag, err |-> "ErrSyntax"]
    ELSE LET nd == {p \in 1..Len(s) : s[p] \notin Digits}
             lim == IF nd = {} THEN Len(s)
                    ELSE (CHOOSE p \in nd : \A q \in nd : p <= q) - 1
             over == {p \in 1..lim :
                        ~MagLE(StripZeros(SubSeq(s, 1, p)), MaxUintMag(bits))}
         IN IF over # {} THEN [n |-> MaxUintMag(bits), err |-> "ErrRange"]
            ELSE IF nd # {} THEN [n |-> ZeroMag, err |-> "ErrSyntax"]
            ELSE [n |-> StripZeros(s), err |-> "nil"]

\* A variant of ParseInt without the signed cutoff: every value of the
\* unsigned width is let through.
ParseIntNoCutoff(s, bits) ==
    IF s = <<>> THEN [neg |-> FALSE, n |-> ZeroMag, err |-> "ErrSyntax"]
    ELSE LET neg == s[1] = "-"
             rest == IF s[1] \in {"+", "-"} THEN Tail(s) ELSE s
             u == ParseUint(rest, bits)
         IN [neg |-> neg, n |-> u.n, err |-> u.err]

\* strconv.ParseInt(s, 10, bits): an optional sign, then ParseUint of the
\* rest at the same width, then the signed cutoff.
ParseInt(s, bits) ==
    IF s = <<>> THEN [neg |-> FALSE, n |-> ZeroMag, err |-> "ErrSyntax"]
    ELSE LET neg == s[1] = "-"
             rest == IF s[1] \in {"+", "-"} THEN Tail(s) ELSE s
             u == ParseUint(rest, bits)
         IN IF u.err = "ErrSyntax"
            THEN [neg |-> FALSE, n |-> ZeroMag, err |-> "ErrSyntax"]
            ELSE IF ~neg /\ ~MagLE(u.n, MaxIntMag(bits))
            THEN [neg |-> FALSE, n |-> MaxIntMag(bits), err |-> "ErrRange"]
            ELSE IF neg /\ ~MagLE(u.n, MinIntMag(bits))
            THEN [neg |-> TRUE, n |-> MinIntMag(bits), err |-> "ErrRange"]
            ELSE [neg |-> neg, n |-> u.n, err |-> "nil"]

RECURSIVE StripTrailingZeros(_)
\* A fraction's digits without trailing zeros.
StripTrailingZeros(ds) ==
    IF ds # <<>> /\ ds[Len(ds)] = "0"
    THEN StripTrailingZeros(SubSeq(ds, 1, Len(ds) - 1)) ELSE ds

\* strconv.ParseFloat on plain decimal text: an optional sign, digits with
\* at most one point, at least one digit.  Exponent, hexadecimal, infinity
\* and NaN forms need letters the enumerated texts never combine, and the
\* enumerated texts are short enough to be exact at either precision.
ParseFloat(s, bits) ==
    LET signed == s # <<>> /\ s[1] \in {"+", "-"}
        body == IF signed THEN Tail(s) ELSE s
        pts == {p \in 1..Len(body) : body[p] = "."}
        ok == /\ \A p \in 1..Len(body) : body[p] \in Digits \cup {"."}
              /\ Cardinality(pts) <= 1
              /\ \E p \in 1..Len(body) : body[p] \in Digits
        pt == IF pts = {} THEN Len(body) + 1 ELSE CHOOSE p \in pts : TRUE
        ip == SubSeq(body, 1, pt - 1)
        fp == SubSeq(body, pt + 1, Len(body))
    IN IF ~ok THEN [f |-> FloatPayload(FALSE, ZeroMag, <<>>), err |-> "ErrSyntax"]
       ELSE [f |-> FloatPayload(signed /\ s[1] = "-",
                                IF ip = <<>> THEN ZeroMag ELSE StripZeros(ip),
                                StripTrailingZeros(fp)),
             err |-> "nil"]

TrueTexts == {<<"1">>, <<"t">>, <<"T">>, <<"T", "R", "U", "E">>,
              <<"t", "r", "u", "e">>, <<"T", "r", "u", "e">>}

FalseTexts == {<<"0">>, <<"f">>, <<"F">>, <<"F", "A", "L", "S", "E">>,
               <<"f", "a", "l", "s", "e">>, <<"F", "a", "l", "s", "e">>}

\* strconv.ParseBool
ParseBool(s) ==
    IF s \in TrueTexts THEN [val |-> Val("bool", TRUE), err |-> NoError]
    ELSE IF s \in FalseTexts THEN [val |-> Val("bool", FALSE), err |-> NoError]
    ELSE [val |-> Val("bool", FALSE), err |-> NumError("ParseBool", s, "ErrSyntax")]

\* parse[T]: T is one of the twelve numeric types; on failure the zero T is
\* returned beside the error.
parse(T, s) ==
    CASE T \in FloatTypes ->
            LET r == ParseFloat(s, Bits(T))
            IN IF r.err # "nil"
               THEN [val |-> Zero(T), err |-> NumError("ParseFloat", s, r.err)]
               ELSE [val |-> Val(T, r.f), err |-> NoError]
      [] T \in UintTypes ->
            LET r == ParseUint(s, Bits(T))
            IN IF r.err # "nil"
               THEN [val |-> Zero(T), err |-> NumError("ParseUint", s, r.err)]
               ELSE [val |-> Val(T, IntPayload(FALSE, r.n)), err |-> NoError]
      [] OTHER ->
            LET r == ParseInt(s, Bits(T))
            IN IF r.err # "nil"
               THEN [val |-> Zero(T), err |-> NumError("ParseInt", s, r.err)]
               ELSE [val |-> Val(T, IntPayload(r.neg, r.n)), err |-> NoError]


\* ------------------------------------------------------------- DefaultCast
\* DefaultSeperator
DefaultSeperator == ","

RECURSIVE Split(_)
\* strings.Split(s, DefaultSeperator): always at least one part.
Split(s) ==
    LET c == {k \in 1..Len(s) : s[k] = DefaultSeperator}
    IN IF c = {} THEN <<s>>
       ELSE LET m == CHOOSE k \in c : \A j \in c : k <= j
            IN <<SubSeq(s, 1, m - 1)>> \o Split(SubSeq(s, m + 1, Len(s)))

\* fmt's %v of a float of moderate magnitude: shortest decimal form.
FormatFloat(f) ==
    (IF f.neg THEN <<"-">> ELSE <<>>) \o f.mag
        \o (IF f.frac = <<>> THEN <<>> ELSE <<".">> \o f.frac)

\* A variant of the %d formatting that prints the magnitude only.
SprintfDAbs(x) ==
    IF x.t \in FloatTypes THEN FormatFloat(x.v) ELSE x.v.mag

\* fmt.Sprintf("%d", x) for x held in an interface: base-10 digits for the
\* integer types, the bad-verb form %!d(type=value) for the float types.
SprintfD(x) ==
    IF x.t \in FloatTypes
    THEN <<"%", "!", "d", "(">>
           \o (IF x.t = "float32"
               THEN <<"f", "l", "o", "a", "t", "3", "2">>
               ELSE <<"f", "l", "o", "a", "t", "6", "4">>)
           \o <<"=">> \o FormatFloat(x.v) \o <<")">>
    ELSE (IF x.v.neg THEN <<"-">> ELSE <<>>) \o x.v.mag

\* from != 0 with from of interface type: the constant becomes int(0), so
\* the operands are equal only for an int holding zero.
NotEqualZero(x) == ~(x.t = "int" /\ x.v.mag = ZeroMag)

\* The error a user type's UnmarshalString reports.
ErrGrade == [kind |-> "ErrGrade"]

\* UnmarshalString on a fresh zero value of type t.  Role stores the text
\* and never fails; Grade stores the text and fails unless it is made of
\* the letter a only.
UnmarshalString(t, s) ==
    IF t = "Grade" /\ (s = <<>> \/ \E k \in 1..Len(s) : s[k] # "a")
    THEN [val |-> Val(t, [Name |-> s]), err |-> ErrGrade]
    ELSE [val |-> Val(t, [Name |-> s]), err |-> NoError]

\* The outcome of a panic (reflect.Append or reflect.Value.Set given a value
\* of a type that is not assignable).
Panic == [kind |-> "panic"]

CastOK(v) == [val |-> v, err |-> NoError]

CastFail(e) == [val |-> Nil, err |-> e]

\* The text -> numeric and text -> bool cases of DefaultCast.
CastTextScalar(s, t) ==
    IF Kind(t) = "bool" THEN ParseBool(s) ELSE parse(Kind(t), s)

\* A variant of the default case that hands the user type's error back
\* unwrapped.
CastTextUnmarshalerRaw(s, t) ==
    IF ~ImplementsUnmarshaler(t) THEN CastFail(ErrUnsupported)
    ELSE LET u == UnmarshalString(t, s)
         IN IF u.err # NoError THEN CastFail(u.err) ELSE CastOK(u.val)

\* The default case of the text switch: the custom-decode extension point.
CastTextUnmarshaler(s, t) ==
    IF ~ImplementsUnmarshaler(t) THEN CastFail(ErrUnsupported)
    ELSE LET u == UnmarshalString(t, s)
         IN IF u.err # NoError THEN CastFail(UnmarshalerError(u.err, s, t))
            ELSE CastOK(u.val)

\* The numeric case of DefaultCast.
CastNumeric(x, t) ==
    CASE Kind(t) = "string" -> CastOK(Val("string", SprintfD(x)))
      [] Kind(t) = "bool" -> CastOK(Val("bool", NotEqualZero(x)))
      [] OTHER -> CastFail(ErrUnsupported)

\* The bool case of DefaultCast.
CastBool(b, t) ==
    LET str == IF b THEN <<"1">> ELSE <<"0">>
    IN CASE Kind(t) = "string" ->
              CastOK(Val("string", IF b THEN <<"t", "r", "u", "e">>
                                   ELSE <<"f", "a", "l", "s", "e">>))
         [] Kind(t) \in numbers -> parse(Kind(t), str)
         [] OTHER -> CastFail(ErrUnsupported)

RECURSIVE DefaultCast(_, _)
\* DefaultCast(from, to).  In the slice case the parts are cast in order:
\* the first part whose cast fails ends the cast with that error, and
\* reflect.Append panics on the first part whose cast value is not of the
\* element type.
DefaultCast(x, t) ==
    CASE x.t = "string" ->
           CASE Kind(t) \in numbers \cup {"bool"} -> CastTextScalar(x.v, t)
             [] Kind(t) = "slice" ->
                  LET split == Split(x.v)
                  IN IF Kind(Elem(t)) = "string"
                     THEN CastOK(Val("[]string", SlicePayload(
                            [k \in 1..Len(split) |-> Val("string", split[k])])))
                     ELSE LET rs == [k \in 1..Len(split) |->
                                       DefaultCast(Val("string", split[k]), Elem(t))]
                              bad == {k \in 1..Len(split) :
                                        \/ rs[k].err # NoError
                                        \/ ~AssignableTo(rs[k].val.t, Elem(t))}
                          IN IF bad = {}
                             THEN CastOK(Val(t, SlicePayload(
                                    [k \in 1..Len(split) |-> rs[k].val])))
                             ELSE LET m == CHOOSE k \in bad : \A j \in bad : k <= j
                                  IN IF rs[m].err # NoError THEN CastFail(rs[m].err)
                                     ELSE CastFail(Panic)
             [] OTHER -> CastTextUnmarshaler(x.v, t)
      [] x.t \in numbers -> CastNumeric(x, t)
      [] x.t = "bool" -> CastBool(x.v, t)
      [] OTHER -> CastFail(ErrUnsupported)


\* ------------------------------------------------- inputs of the cast spec
\* Characters of the exhaustively enumerated texts.
Alphabet == {"0", "1", "9", "-", "+", ",", "a"}

\* Every text over the alphabet up to the bound.
ShortTexts == UNION {[1..k -> Alphabet] : k \in 0..MaxLen}

DigitChar == <<"0", "1", "2", "3", "4", "5", "6", "7", "8", "9">>

RECURSIVE NatText(_)
\* The canonical decimal text of a natural number.
NatText(n) ==
    IF n < 10 THEN <<DigitChar[n + 1]>>
    ELSE NatText(n \div 10) \o <<DigitChar[(n % 10) + 1]>>

\* The canonical decimal text of an integer.
IntText(n) == IF n < 0 THEN <<"-">> \o NatText(-n) ELSE NatText(n)

\* The canonical text of every 8-bit value, signed and unsigned, and of the
\* first values outside both ranges.
ByteTexts == {IntText(n) : n \in -129..256}

Widths == {8, 16, 32, 64}

\* The canonical texts of the limits of every width, and of the values just
\* outside the signed limits.
LimitTexts ==
    UNION {{MaxUintMag(w), MaxIntMag(w), MinIntMag(w), <<"-">> \o MinIntMag(w),
            <<"-">> \o MaxIntMag(w), <<"-">> \o MaxUintMag(w)} : w \in Widths}

\* Texts of the documentation and the test suite, and long digit strings.
NamedTexts ==
    {<<"9", "9", "9", "9", "9", "9", "9", "9", "9", "9", "9", "9", "9", "9",
       "9", "9", "9", "9", "9", "9", "9">>,
     <<"1", "8", "4", "4", "6", "7", "4", "4", "0", "7", "3", "7", "0", "9",
       "5", "5", "1", "6", "1", "6">>,
     <<"6", "5", "5", "3", "6">>,
     <<"4", "2", "9", "4", "9", "6", "7", "2", "9", "6">>,
     <<"6", ",", "7", ",", "8">>,
     <<"6", ",", "x", ",", "8">>,
     <<"3", "0", "0", ",", "x">>,
     <<"x", ",", "3", "0", "0">>,
     <<"s", "e", "p", "i", "a", ",", "m", "o", "n", "o", "c", "h", "r", "o",
       "m", "e">>,
     <<"a", "d", "m", "i", "n">>,
     <<"a", "d", "m", "i", "n", ",", "u", "s", "e", "r">>,
     <<"a", "a", ",", "a">>,
     <<"t", "r", "u", "e">>, <<"f", "a", "l", "s", "e">>,
     <<"t", "r", "u", "e", ",", "0">>,
     <<"1", ".", "5">>, <<"-", "0", ".", "2", "5", "0">>, <<".">>}

Texts == ShortTexts \cup ByteTexts \cup LimitTexts \cup NamedTexts

\* Integer values given to the cast: zero, one, the limits of the type.
IntInputs ==
    {Val(t, IntPayload(FALSE, m)) :
        t \in IntTypes, m \in {ZeroMag, <<"1">>, <<"4", "2">>}}
    \cup {Val(t, IntPayload(TRUE, m)) : t \in IntTypes, m \in {<<"1">>, <<"7">>}}
    \cup {Val(t, IntPayload(FALSE, MaxIntMag(Bits(t)))) : t \in IntTypes}
    \cup {Val(t, IntPayload(TRUE, MinIntMag(Bits(t)))) : t \in IntTypes}
    \cup {Val(t, IntPayload(FALSE, m)) :
            t \in UintTypes \cup {"Level"}, m \in {ZeroMag, <<"1">>, <<"4", "2">>}}
    \cup {Val(t, IntPayload(FALSE, MaxUintMag(Bits(t)))) : t \in UintTypes}

\* Floating-point values given to the cast: 0, 3, 1.5, -2, -0.25.
FloatInputs ==
    {Val(t, f) : t \in FloatTypes,
                 f \in {FloatPayload(FALSE, ZeroMag, <<>>),
                        FloatPayload(FALSE, <<"3">>, <<>>),
                        FloatPayload(FALSE, <<"1">>, <<"5">>),
                        FloatPayload(TRUE, <<"2">>, <<>>),
                        FloatPayload(TRUE, ZeroMag, <<"2", "5">>)}}

BoolInputs == {Val(t, b) : t \in {"bool", "Flag"}, b \in BOOLEAN}

\* Target types given to the cast.
CastTargets ==
    numbers \cup {"string", "bool"} \cup NamedTypes \cup SliceTypes
        \cup {"Role", "Grade", "Plain", "*Role", "any", "multipart.File"}

\* Digits of a text that count towards a float's precision.
SignificantDigits(s) == Cardinality({k \in 1..Len(s) : s[k] \in Digits})

\* Decimal digits a float32 holds exactly.
FloatExactDigits == 6

\* The text -> float case is modelled for texts short enough to be exact.
FloatExact(x, t) ==
    (x.t = "string" /\ Kind(t) \in FloatTypes)
        => SignificantDigits(x.v) <= FloatExactDigits

NoOut == [val |-> Nil, err |-> NoError]

\* No Pipe is in use and no call has been completed before.
IdlePipe ==
    /\ pipe = <<>>
    /\ pos = 0
    /\ hist = <<>>

\* Values the variables of the other specification keep.
IdleDecode ==
    /\ target = [type |-> "nil", nil |-> TRUE]
    /\ fields = <<>>
    /\ rec = <<>>
    /\ rec0 = <<>>
    /\ src = [kind |-> "none", data |-> <<>>]
    /\ idx = 0
    /\ err = NoError
    /\ gets = <<>>

InitCast ==
    /\ pc = "cast"
    /\ \/ \E s \in Texts : from = Val("string", s)
       \/ from \in IntInputs
       \/ from \in FloatInputs
       \/ from \in BoolInputs
       \/ \E k \in 1..3 : from = <<Nil, Val("Label", <<"a">>),
                                   Val("Role", [Name |-> <<"a">>])>>[k]
    /\ to \in CastTargets
    /\ FloatExact(from, to)
    /\ out = NoOut
    /\ back = NoOut
    /\ IdleDecode
    /\ IdlePipe

\* One call of DefaultCast(from, to).
Cast ==
    /\ pc = "cast"
    /\ out' = DefaultCast(from, to)
    /\ pc' = "casted"
    /\ UNCHANGED <<target, fields, rec, rec0, src, idx, err, gets, from, to, back,
                   pipe, pos, hist>>

\* A successful cast's value cast back to the type of the original input.
CastBack ==
    /\ pc = "casted"
    /\ out.err = NoError
    /\ from.t # "nil"
    /\ back' = DefaultCast(out.val, from.t)
    /\ pc' = "returned"
    /\ UNCHANGED <<target, fields, rec, rec0, src, idx, err, gets, from, to, out,
                   pipe, pos, hist>>

NextCast == Cast \/ CastBack

SpecCast == InitCast /\ [][NextCast]_vars


\* ----------------------------------------------------------------- sources
\* The value sources of scanner.go, and "getter": a caller's own Getter
\* (no Cast) that may hold values of any type.
SourceKinds ==
    {"header", "query", "form", "cookie", "multipart", "directory", "getter"}

\* The tag key each scanner hands to structd.New.
Namespace(kind) ==
    CASE kind = "header" -> "header"
      [] kind = "query" -> "query"
      [] kind = "form" -> "form"
      [] kind = "cookie" -> "cookie"
      [] kind = "multipart" -> "multipart"
      [] kind = "directory" -> "file"
      [] OTHER -> "key"

\* Whether the source implements the caster interface (has a Cast method).
HasCaster(kind) == kind \in {"query", "form", "directory"}

\* ASCII codes of the characters file contents are made of.
Ascii == ("0" :> 48) @@ ("1" :> 49) @@ ("a" :> 97) @@ ("b" :> 98)

\* []byte(text)
Bytes(text) ==
    Val("[]uint8", SlicePayload(
        [k \in 1..Len(text) |->
            Val("uint8", IntPayload(FALSE, NatText(Ascii[text[k]])))]))

\* string(b) for b a []byte
BytesToString(b) ==
    [k \in 1..Len(b.elems) |->
        CHOOSE c \in DOMAIN Ascii : NatText(Ascii[c]) = b.elems[k].v.mag]

\* An open file of a Directory: a reader with the content not yet read.
Reader(text) == Val("reader", text)

\* Getter.Get(key) of each source: the value returned and the source after
\* the call.  Header, Query and Form return "" for a missing key; Cookie and
\* Multipart return nil; Directory returns an empty, non-nil []byte for a
\* missing file, and otherwise reads the file's reader to its end.
Get(s, key) ==
    IF s.kind = "directory"
    THEN IF s.data[key].t = "nil"
         THEN [val |-> Bytes(<<>>), src |-> s]
         ELSE [val |-> Bytes(s.data[key].v),
               src |-> [s EXCEPT !.data[key] = Reader(<<>>)]]
    ELSE [val |-> s.data[key], src |-> s]

\* Directory.Cast
DirectoryCast(x, t) ==
    IF Kind(t) = "string" /\ Kind(x.t) = "slice" /\ Kind(Elem(x.t)) = "uint8"
    THEN IF x.t = "[]uint8"
         THEN CastOK(Val("string", BytesToString(x.v)))
         ELSE CastFail(Panic)
    ELSE CastFail(ErrUnsupported)

\* caster.Cast of a source that has it: Query and Form delegate to
\* DefaultCast, Directory has its own.
SourceCast(kind, x, t) ==
    IF kind = "directory" THEN DirectoryCast(x, t) ELSE DefaultCast(x, t)

\* ------------------------------------------------- inputs of the decode spec
FieldNames == <<"A", "B", "C", "D", "E", "F">>

UnexportedNames == <<"a", "b", "c", "d", "e", "f">>

\* The struct tag of field i under each annotation: "own" is a tag under
\* the decoder's key, "both" adds a tag of another namespace, "other" has
\* only that one, "none" is no tag at all; "unexported" is an unexported
\* field carrying the decoder's tag.
TagOf(ann, ns, i) ==
    CASE ann \in {"own", "unexported"} -> (ns :> i)
      [] ann = "both" -> (ns :> i) @@ ("json" :> i)
      [] ann = "other" -> ("json" :> i)
      [] OTHER -> <<>>

\* reflect.StructField of field i.
FieldOf(c, ns, i) ==
    [name |-> IF c.ann = "unexported" THEN UnexportedNames[i] ELSE FieldNames[i],
     type |-> c.type,
     exported |-> c.ann # "unexported",
     tag |-> TagOf(c.ann, ns, i)]

RECURSIVE Preset(_)
\* A non-zero value of a type, for a record that was populated before.
Preset(t) ==
    CASE Kind(t) = "string" -> Val(t, <<"p">>)
      [] Kind(t) = "bool" -> Val(t, TRUE)
      [] Kind(t) \in IntTypes \cup UintTypes -> Val(t, IntPayload(FALSE, <<"9">>))
      [] Kind(t) \in FloatTypes -> Val(t, FloatPayload(FALSE, <<"9">>, <<>>))
      [] Kind(t) = "slice" -> Val(t, SlicePayload(<<Preset(Elem(t))>>))
      [] Kind(t) = "struct" -> Val(t, [Name |-> <<"p">>])
      [] t = "multipart.File" -> Val("file", [Name |-> <<"p">>])
      [] OTHER -> Val("string", <<"p">>)

Str(text) == Val("string", text)

Case(t, ann, raw) == [type |-> t, ann |-> ann, raw |-> raw]

\* The field cases of each source: a field's type and annotation together
\* with what the source holds under the field's key.
Catalogue(kind) ==
    CASE kind = "query" ->
           <<Case("string", "own", Str(<<"a">>)),
             Case("uint8", "both", Str(<<"1">>)),
             Case("uint8", "own", Str(<<"3", "0", "0">>)),
             Case("int8", "own", Str(<<"9", "9", "9", "9", "9", "9", "9", "9",
                    "9", "9", "9", "9", "9", "9", "9", "9", "9", "9", "9", "9",
                    "9">>)),
             Case("Role", "own", Str(<<"a">>)),
             Case("Grade", "own", Str(<<"a", "b">>)),
             Case("bool", "own", Str(<<>>)),
             Case("Level", "own", Str(<<"1">>)),
             Case("string", "none", Str(<<"a">>)),
             Case("string", "unexported", Str(<<"a">>))>>
      [] kind = "form" ->
           <<Case("[]int", "own", Str(<<"6", ",", "7">>)),
             Case("[]int", "own", Str(<<"6", ",", "a">>)),
             Case("[]string", "own", Str(<<"a", ",", "b">>)),
             Case("uint32", "both", Str(<<"2">>)),
             Case("int16", "own", Str(<<>>))>>
      [] kind = "header" ->
           <<Case("string", "own", Str(<<"a">>)),
             Case("string", "own", Str(<<>>)),
             Case("uint8", "own", Str(<<"1">>)),
             Case("Label", "own", Str(<<"a">>)),
             Case("any", "own", Str(<<"a">>)),
             Case("string", "none", Str(<<"a">>)),
             Case("uint8", "unexported", Str(<<"1">>))>>
      [] kind = "cookie" ->
           <<Case("string", "own", Str(<<"a">>)),
             Case("string", "own", Nil),
             Case("string", "own", Str(<<>>)),
             Case("bool", "own", Str(<<"1">>)),
             Case("bool", "other", Str(<<"1">>))>>
      [] kind = "multipart" ->
           <<Case("multipart.File", "own", Val("file", [Name |-> <<"a">>])),
             Case("multipart.File", "own", Nil),
             Case("string", "own", Val("file", [Name |-> <<"a">>])),
             Case("string", "own", Nil),
             Case("multipart.File", "none", Val("file", [Name |-> <<"a">>]))>>
      [] kind = "directory" ->
           <<Case("string", "own", Reader(<<"a", "b">>)),
             Case("string", "own", Reader(<<>>)),
             Case("string", "own", Nil),
             Case("[]uint8", "own", Reader(<<"a">>)),
             Case("uint8", "own", Reader(<<"1">>)),
             Case("Label", "own", Reader(<<"a">>)),
             Case("string", "none", Reader(<<"a">>))>>
      [] OTHER ->
           <<Case("int", "own", Val("int", IntPayload(FALSE, <<"5">>))),
             Case("int", "own", Val("int", IntPayload(FALSE, ZeroMag))),
             Case("bool", "own", Val("bool", FALSE)),
             Case("bool", "own", Val("bool", TRUE)),
             Case("string", "own", Val("int", IntPayload(FALSE, <<"5">>))),
             Case("string", "own", Bytes(<<"a">>)),
             Case("[]int", "own", Val("[]int", NilSlice)),
             Case("float64", "own", Val("float64", FloatPayload(FALSE, ZeroMag, <<>>))),
             Case("string", "own", Nil)>>

\* What Decode can be handed as v: untyped nil, a non-pointer, a nil
\* pointer, a pointer to something that is no struct, a pointer to a record.
Targets ==
    {[type |-> "nil", nil |-> TRUE],
     [type |-> "Params", nil |-> FALSE],
     [type |-> "int", nil |-> FALSE],
     [type |-> "*Params", nil |-> TRUE],
     [type |-> "*Params", nil |-> FALSE],
     [type |-> "*int", nil |-> TRUE],
     [type |-> "*int", nil |-> FALSE],
     [type |-> "**Params", nil |-> FALSE]}

ValidTarget == [type |-> "*Params", nil |-> FALSE]


\* ------------------------------------------------------------------ Decode
\* Values the variables of the cast specification keep.
IdleCast ==
    /\ from = Nil
    /\ to = "nil"
    /\ out = NoOut
    /\ back = NoOut

\* The state when Decode is called: a source, a target, and the caller's
\* record, freshly zeroed or populated before.  rec0 keeps the record as it
\* was at the call; gets lists the lookups made: the key and what came back.
Init ==
    /\ pc = "call"
    /\ \E kind \in SourceKinds, fresh \in BOOLEAN :
         \E cs \in [1..NumFields -> 1..Len(Catalogue(kind))] :
            LET cat == Catalogue(kind)
            IN /\ fields = [i \in 1..NumFields |->
                              FieldOf(cat[cs[i]], Namespace(kind), i)]
               /\ src = [kind |-> kind,
                         data |-> [i \in 1..NumFields |-> cat[cs[i]].raw]]
               /\ rec = [i \in 1..NumFields |->
                           IF fresh THEN Zero(cat[cs[i]].type)
                           ELSE Preset(cat[cs[i]].type)]
               /\ target \in Targets
               /\ target # ValidTarget =>
                     ~fresh /\ \A i \in 1..NumFields : cs[i] = cs[1]
    /\ rec0 = rec
    /\ idx = 0
    /\ err = NoError
    /\ gets = <<>>
    /\ IdleCast
    /\ IdlePipe

\* A variant of the entry of Decode without the check that the pointer
\* points to a struct.
DecodeNoStructCheck ==
    /\ pc = "call"
    /\ IF Kind(target.type) # "ptr" \/ target.nil
       THEN /\ err' = InvalidUnmarshalError(target.type)
            /\ pc' = "done"
            /\ idx' = idx
       ELSE /\ pc' = "loop"
            /\ idx' = 1
            /\ err' = err
    /\ UNCHANGED <<target, fields, rec, rec0, src, gets, from, to, out, back,
                   pipe, pos, hist>>

\* Decoder.Decode, entry: the target must be a non-nil pointer to a struct.
Decode ==
    /\ pc = "call"
    /\ IF Kind(target.type) # "ptr" \/ target.nil
       THEN /\ err' = InvalidUnmarshalError(target.type)
            /\ pc' = "done"
            /\ idx' = idx
       ELSE IF Kind(Elem(target.type)) # "struct"
       THEN /\ err' = InvalidUnmarshalError(Elem(target.type))
            /\ pc' = "done"
            /\ idx' = idx
       ELSE /\ pc' = "loop"
            /\ idx' = 1
            /\ err' = err
    /\ UNCHANGED <<target, fields, rec, rec0, src, gets, from, to, out, back,
                   pipe, pos, hist>>

\* A variant of continue that zeroes the skipped field.
ContinueZeroing ==
    /\ idx' = idx + 1
    /\ rec' = [rec EXCEPT ![idx] = Zero(fields[idx].type)]
    /\ UNCHANGED <<pc, err>>

\* The field is left alone and the loop goes on (continue).
Continue ==
    /\ idx' = idx + 1
    /\ UNCHANGED <<pc, rec, err>>

\* value.Set(x), then the loop goes on.  reflect panics when x's type is
\* not assignable to the field's type.
SetField(x) ==
    IF AssignableTo(x.t, fields[idx].type)
    THEN /\ rec' = [rec EXCEPT ![idx] = x]
         /\ idx' = idx + 1
         /\ UNCHANGED <<pc, err>>
    ELSE /\ pc' = "panic"
         /\ UNCHANGED <<rec, idx, err>>

\* A variant of the error return that restores the record (a rollback).
ReturnRollback(e) ==
    /\ err' = e
    /\ pc' = "done"
    /\ rec' = rec0
    /\ UNCHANGED idx

\* Decode returns e.
Return(e) ==
    /\ err' = e
    /\ pc' = "done"
    /\ UNCHANGED <<rec, idx>>

\* Decoder.Decode, one iteration of the loop over the fields.
DecodeField ==
    /\ pc = "loop"
    /\ idx <= Len(fields)
    /\ LET field == fields[idx]
           key == Namespace(src.kind)
       IN IF ~field.exported \/ key \notin DOMAIN field.tag
          THEN Continue /\ UNCHANGED <<src, gets>>
          ELSE LET g == Get(src, field.tag[key])
                   tv == g.val
               IN /\ src' = g.src
                  /\ gets' = Append(gets, [key |-> field.tag[key], val |-> tv])
                  /\ IF tv.t = "nil" THEN Continue
                     ELSE IF IsZero(tv) THEN Continue
                     ELSE IF AssignableTo(tv.t, field.type) THEN SetField(tv)
                     ELSE IF HasCaster(src.kind)
                     THEN LET c == SourceCast(src.kind, tv, field.type)
                          IN IF c.err = Panic
                             THEN pc' = "panic" /\ UNCHANGED <<rec, idx, err>>
                             ELSE IF c.err # NoError
                             THEN Return(wrapCastErr(c.err))
                             ELSE SetField(c.val)
                     ELSE Return(UnmarshalTypeError(
                             TypeName(tv.t), field.type,
                             TypeName(Elem(target.type)), field.name))
    /\ UNCHANGED <<target, fields, rec0, from, to, out, back, pipe, pos, hist>>

\* Decoder.Decode, after the last field: return nil.
DecodeReturn ==
    /\ pc = "loop"
    /\ idx > Len(fields)
    /\ err' = NoError
    /\ pc' = "done"
    /\ UNCHANGED <<target, fields, rec, rec0, src, idx, gets, from, to, out, back,
                   pipe, pos, hist>>

Next == Decode \/ DecodeField \/ DecodeReturn

Spec == Init /\ [][Next]_vars


\* ------------------------------------------------------- decoding twice
\* A record of the field types with every field at its zero value.
ZeroRecord == [i \in 1..Len(fields) |-> Zero(fields[i].type)]

\* Decode is called the first time with a pointer to a zero-valued record.
InitTwice ==
    /\ Init
    /\ target = ValidTarget
    /\ rec = ZeroRecord

\* The caller keeps the record and the error of the first call and calls
\* Decode again, on the same decoder (same source, same key), with a
\* pointer to another zero-valued record of the same type.
DecodeAgain ==
    /\ pc = "done"
    /\ hist = <<>>
    /\ hist' = <<[rec |-> rec, err |-> err]>>
    /\ rec' = ZeroRecord
    /\ rec0' = ZeroRecord
    /\ idx' = 0
    /\ err' = NoError
    /\ gets' = <<>>
    /\ pc' = "call"
    /\ UNCHANGED <<target, fields, src, from, to, out, back, pipe, pos>>

NextTwice == Next \/ DecodeAgain

SpecTwice == InitTwice /\ [][NextTwice]_vars

\* -------------------------------------------------------------------- Pipe
\* The Pipes of the model: the kinds of the scanners each was made of, in
\* the order given to NewPipe.
Pipes ==
    {<<"query", "header">>, <<"header", "query">>,
     <<"query", "header", "cookie">>}

PipeCase(t, raws) == [type |-> t, raws |-> raws]

\* The field cases of a record scanned by a Pipe: the field's type, and
\* for each namespace the field carries a tag of, what the source of that
\* namespace holds under the field's key.
PipeCatalogue ==
    <<PipeCase("string", ("query" :> Str(<<"a">>))),
      PipeCase("string", ("header" :> Str(<<"b">>))),
      PipeCase("string", ("query" :> Str(<<"a">>)) @@ ("header" :> Str(<<"b">>))),
      PipeCase("uint8", ("query" :> Str(<<"1">>))),
      PipeCase("uint8", ("query" :> Str(<<"3", "0", "0">>))),
      PipeCase("uint8", ("header" :> Str(<<"1">>))),
      PipeCase("string", ("cookie" :> Str(<<"c">>)))>>

\* The targets a Pipe is handed in the model: a pointer to a record, and a
\* nil pointer.
PipeTargets == {ValidTarget, [type |-> "*Params", nil |-> TRUE]}

\* The state when Pipe.Scan is called: the scanners with their sources, the
\* target and the caller's zero-valued record.
InitPipe ==
    /\ pc = "pipe"
    /\ \E kinds \in Pipes :
         \E cs \in [1..NumFields -> 1..Len(PipeCatalogue)] :
            /\ fields = [i \in 1..NumFields |->
                           [name |-> FieldNames[i],
                            type |-> PipeCatalogue[cs[i]].type,
                            exported |-> TRUE,
                            tag |-> [ns \in DOMAIN PipeCatalogue[cs[i]].raws |-> i]]]
            /\ pipe = [n \in 1..Len(kinds) |->
                         [kind |-> kinds[n],
                          data |-> [i \in 1..NumFields |->
                              IF kinds[n] \in DOMAIN PipeCatalogue[cs[i]].raws
                              THEN PipeCatalogue[cs[i]].raws[kinds[n]]
                              ELSE Str(<<>>)]]]
    /\ target \in PipeTargets
    /\ rec = ZeroRecord
    /\ rec0 = rec
    /\ src = [kind |-> "none", data |-> <<>>]
    /\ idx = 0
    /\ err = NoError
    /\ gets = <<>>
    /\ pos = 0
    /\ hist = <<>>
    /\ IdleCast

\* Pipe.Scan, the loop over the scanners: the next scanner's Scan is called
\* with the same v; after the last scanner, nil is returned.
PipeScan ==
    /\ pc = "pipe"
    /\ IF pos < Len(pipe)
       THEN /\ pos' = pos + 1
            /\ src' = pipe[pos + 1]
            /\ rec0' = rec
            /\ idx' = 0
            /\ gets' = <<>>
            /\ pc' = "call"
            /\ UNCHANGED err
       ELSE /\ err' = NoError
            /\ pc' = "piped"
            /\ UNCHANGED <<pos, src, rec0, idx, gets>>
    /\ UNCHANGED <<target, fields, rec, from, to, out, back, pipe, hist>>

\* A variant of the error check that goes on to the next scanner whatever
\* the scanner returned.
PipeScanReturnIgnoringError ==
    /\ pc = "done"
    /\ pos > 0
    /\ hist' = Append(hist, [scanner |-> pos, rec |-> rec, err |-> err])
    /\ pipe' = [pipe EXCEPT ![pos] = src]
    /\ pc' = "pipe"
    /\ UNCHANGED <<target, fields, rec, rec0, src, idx, err, gets, from, to, out,
                   back, pos>>

\* Pipe.Scan, when a scanner's Scan has returned: its error, if any, is
\* returned at once; otherwise the loop goes on.  hist lists the scanners
\* that returned, with the record and the error each left.
PipeScanReturn ==
    /\ pc = "done"
    /\ pos > 0
    /\ hist' = Append(hist, [scanner |-> pos, rec |-> rec, err |-> err])
    /\ pipe' = [pipe EXCEPT ![pos] = src]
    /\ pc' = IF err # NoError THEN "piped" ELSE "pipe"
    /\ UNCHANGED <<target, fields, rec, rec0, src, idx, err, gets, from, to, out,
                   back, pos>>

NextPipe == PipeScan \/ Decode \/ DecodeField \/ DecodeReturn \/ PipeScanReturn

SpecPipe == InitPipe /\ [][NextPipe]_vars

\* ------------------------------------------------------ properties: Decode
\* Whether Decode has asked the source for field j's key.
Looked(j) == \E n \in 1..Len(gets) : gets[n].key = j

\* What the source returned for field j's key.
Lookup(j) == gets[CHOOSE n \in 1..Len(gets) : gets[n].key = j].val

\* Absence: nil, or a representational zero value.
Absent(x) == x.t = "nil" \/ IsZero(x)

\* A present value x that must be coerced for field j and whose coercion
\* reports failure.
CoercionFails(j, x) ==
    /\ ~Absent(x)
    /\ ~AssignableTo(x.t, fields[j].type)
    /\ SourceCast(src.kind, x, fields[j].type).err \notin {NoError, Panic}

\* A present value x that field j takes: directly, or after a coercion that
\* succeeds with a value of the field's type.
Takes(j, x) ==
    /\ fields[j].exported
    /\ Namespace(src.kind) \in DOMAIN fields[j].tag
    /\ ~Absent(x)
    /\ \/ AssignableTo(x.t, fields[j].type)
       \/ /\ HasCaster(src.kind)
          /\ SourceCast(src.kind, x, fields[j].type).err = NoError
          /\ AssignableTo(SourceCast(src.kind, x, fields[j].type).val.t,
                          fields[j].type)

\* The value field j holds after it took x.
Taken(j, x) ==
    IF AssignableTo(x.t, fields[j].type) THEN x
    ELSE SourceCast(src.kind, x, fields[j].type).val

\* Decode has returned an error raised at the field idx.
AbortedAtField == pc = "done" /\ idx \in 1..Len(fields)

\* C1: fail-fast ordering.  With a source that can coerce, Decode never
\* goes past a field whose coercion fails; when it stops at a field, the
\* error is a CastError wrapping the cause the coercion reported, every
\* earlier field that took its value holds the newly decoded value (no
\* rollback), and the failing field and every later field hold their
\* pre-decode values.
FailFastOrdering ==
    HasCaster(src.kind) =>
        /\ \A j \in 1..Len(fields) :
              (j < idx /\ Looked(j)) => ~CoercionFails(j, Lookup(j))
        /\ AbortedAtField =>
              /\ Looked(idx)
              /\ CoercionFails(idx, Lookup(idx))
              /\ err = CastError(
                         SourceCast(src.kind, Lookup(idx), fields[idx].type).err)
              /\ \A j \in 1..Len(fields) :
                    IF j < idx /\ Looked(j) /\ Takes(j, Lookup(j))
                    THEN rec[j] = Taken(j, Lookup(j))
                    ELSE rec[j] = rec0[j]

\* C1 witness: fields [A: valid, B: failing coercion, C: valid]; Decode has
\* returned B's CastError, A changed and C did not.
FailFastWitness ==
    /\ AbortedAtField
    /\ idx = 2
    /\ src.kind = "query"
    /\ err.kind = "CastError"
    /\ err.err.kind = "NumError"
    /\ Takes(1, Lookup(1))
    /\ rec[1] # rec0[1]
    /\ Takes(3, src.data[3])
    /\ rec[3] = rec0[3]

\* C2: skip-on-absence.  A field whose lookup returned absence keeps its
\* pre-decode value, and Decode goes on to the next field without raising
\* anything for it.
SkipOnAbsence ==
    \A j \in 1..Len(fields) :
        (Looked(j) /\ Absent(Lookup(j))) =>
            /\ rec[j] = rec0[j]
            /\ idx > j
            /\ pc = "done" => (err = NoError \/ idx \in (j + 1)..Len(fields))

\* C2 witness: Decode has returned nil; a populated numeric field and a
\* populated text field whose lookups returned a zero number and nil.
SkipOnAbsenceWitness ==
    /\ pc = "done"
    /\ err = NoError
    /\ \E j, k \in 1..Len(fields) :
          /\ Looked(j) /\ Lookup(j) = Val("int", IntPayload(FALSE, ZeroMag))
          /\ rec[j] = Preset("int")
          /\ Looked(k) /\ Lookup(k).t = "nil"
          /\ rec[k] = Preset("string")

\* A non-nil reference to a record.
RecordReference(tg) ==
    tg.type \in PtrTypes /\ ~tg.nil /\ PtrElem[tg.type] \in StructTypes

\* C3: non-record target rejection.  Decode called with anything but a
\* non-nil reference to a record returns an InvalidUnmarshalError at once:
\* the source is never asked and nothing is mutated.
NonRecordTargetRejected ==
    ~RecordReference(target) =>
        \/ pc = "call"
        \/ /\ pc = "done"
           /\ err.kind = "InvalidUnmarshalError"
           /\ gets = <<>>
           /\ rec = rec0
           /\ idx = 0

\* C3 witness: Decode has rejected a reference to a bare number, with a
\* populated record and a directory source in the caller's hands.
NonRecordTargetWitness ==
    /\ pc = "done"
    /\ target = [type |-> "*int", nil |-> FALSE]
    /\ err.kind = "InvalidUnmarshalError"
    /\ src.kind = "directory"
    /\ src.data[1].t = "reader" /\ src.data[1].v # <<>>

\* The descriptions that fit the violation a target commits.  An untyped
\* nil is no reference and is nil: either description fits it.
Violation(tg) ==
    IF tg.type = "nil" THEN {"nil", "non-pointer"}
    ELSE IF Kind(tg.type) # "ptr" THEN {"non-pointer"}
    ELSE IF tg.nil THEN {"nil"}
    ELSE {"non-struct"}

\* C11: invalid target description, as claimed.  The error Decode returns
\* for an invalid target describes a target that is no reference as
\* non-pointer, a nil reference as nil and a non-nil reference to a
\* non-record as non-struct, and never one violation as another.
InvalidTargetDescription ==
    (pc = "done" /\ err.kind = "InvalidUnmarshalError") =>
        Error(err)[1] \in Violation(target)

\* C12: decode determinism, as claimed.  The second of two decodes from
\* the same source into zero-valued records ends with the record and the
\* error the first one ended with, whatever the source.
DecodeDeterminism ==
    (pc = "done" /\ hist # <<>>) =>
        /\ rec = hist[1].rec
        /\ err = hist[1].err

\* Field j carries a `file` tag whose key names no file of the directory.
MissingFile(j) ==
    /\ src.kind = "directory"
    /\ fields[j].exported
    /\ "file" \in DOMAIN fields[j].tag
    /\ src.data[fields[j].tag["file"]].t = "nil"

\* C15: missing file, as claimed.  Scanning with a Directory source leaves
\* every field whose key names no file as it was: a missing file is
\* absence and never overwrites the field's value with empty text.
MissingFileLeavesField ==
    \A j \in 1..Len(fields) : MissingFile(j) => rec[j] = rec0[j]

\* C4: with a source that cannot coerce, Decode never goes past a present
\* value that is not assignable; it stops there with an UnmarshalTypeError
\* naming the record type, the field, the raw value's type and the field's
\* declared type, and that field and all later fields are unmodified.
TypeMismatchWithoutCaster ==
    ~HasCaster(src.kind) =>
        /\ \A j \in 1..Len(fields) :
              (j < idx /\ Looked(j) /\ ~Absent(Lookup(j)))
                 => AssignableTo(Lookup(j).t, fields[j].type)
        /\ AbortedAtField =>
              /\ Looked(idx)
              /\ ~Absent(Lookup(idx))
              /\ ~AssignableTo(Lookup(idx).t, fields[idx].type)
              /\ err.kind = "UnmarshalTypeError"
              /\ err.struct = "Params"
              /\ err.field = fields[idx].name
              /\ err.value = TypeName(Lookup(idx).t)
              /\ err.type = fields[idx].type
              /\ \A j \in idx..Len(fields) : rec[j] = rec0[j]

\* C4 witness: the Header source, a text value for a numeric field B after
\* a field A that took its value.
TypeMismatchWitness ==
    /\ AbortedAtField
    /\ idx = 2
    /\ src.kind = "header"
    /\ err = UnmarshalTypeError("string", "uint8", "Params", "B")
    /\ rec[1] # rec0[1]
    /\ rec[2] = rec0[2]


\* -------------------------------------------------------- both specifications
InitAll == Init \/ InitCast

NextAll == Next \/ NextCast

\* Decode calls and standalone casts side by side.
SpecAll == InitAll /\ [][NextAll]_vars

\* ------------------------------------------------- properties: DefaultCast
\* A cast of text has been made.
TextCasted == pc \in {"casted", "returned"} /\ from.t = "string"

IntegerKinds == IntTypes \cup UintTypes

\* The digits of an integer text: the text without the sign a signed type
\* admits.
DigitsOf(s, signed) ==
    IF signed /\ s # <<>> /\ s[1] \in {"+", "-"} THEN Tail(s) ELSE s

\* s is a base-10 integer: an optional sign (signed types only), then one
\* or more decimal digits.
IntegerText(s, signed) ==
    /\ DigitsOf(s, signed) # <<>>
    /\ \A k \in 1..Len(DigitsOf(s, signed)) : DigitsOf(s, signed)[k] \in Digits

\* The integer an integer text denotes.
IntegerOf(s, signed) ==
    IntPayload(signed /\ s[1] = "-", StripZeros(DigitsOf(s, signed)))

\* The integer n is within the range of the integer kind k.
InRange(n, k) ==
    IF k \in UintTypes THEN ~n.neg /\ MagLE(n.mag, MaxUintMag(Bits(k)))
    ELSE IF n.neg THEN MagLE(n.mag, MinIntMag(Bits(k)))
    ELSE MagLE(n.mag, MaxIntMag(Bits(k)))

\* s is a base-10 integer within the range of the integer kind k.
IntegerTextInRange(s, k) ==
    /\ IntegerText(s, k \in IntTypes)
    /\ InRange(IntegerOf(s, k \in IntTypes), k)

\* C5: overflow rejection.  A cast of text to an integer type succeeds
\* exactly when the text is a base-10 integer within the range of the
\* type's width, and then yields that integer; otherwise it reports a
\* parse failure and hands back no value but the zero of the type.  Through
\* Decode, such a text ends the decode with a CastError at that field and
\* the field keeps its pre-decode value.
OverflowRejection ==
    /\ (TextCasted /\ Kind(to) \in IntegerKinds) =>
          IF IntegerTextInRange(from.v, Kind(to))
          THEN out = CastOK(Val(Kind(to), IntegerOf(from.v, Kind(to) \in IntTypes)))
          ELSE /\ out.err.kind = "NumError"
               /\ out.err.err \in {"ErrSyntax", "ErrRange"}
               /\ out.val = Zero(Kind(to))
    /\ \A j \in 1..Len(fields) :
          (/\ Looked(j)
           /\ Lookup(j).t = "string"
           /\ ~Absent(Lookup(j))
           /\ HasCaster(src.kind)
           /\ Kind(fields[j].type) \in IntegerKinds
           /\ ~IntegerTextInRange(Lookup(j).v, Kind(fields[j].type)))
             => /\ pc = "done"
                /\ idx = j
                /\ err.kind = "CastError"
                /\ err.err.kind = "NumError"
                /\ rec[j] = rec0[j]

Nines21 ==
    <<"9", "9", "9", "9", "9", "9", "9", "9", "9", "9", "9", "9", "9", "9",
      "9", "9", "9", "9", "9", "9", "9">>

\* C5 witness: Decode has met "999999999999999999999" for a populated 8-bit
\* field after a field that took its value, and returned a range error.
OverflowWitness ==
    /\ AbortedAtField
    /\ idx = 2
    /\ fields[2].type = "int8"
    /\ Lookup(2) = Val("string", Nines21)
    /\ err = CastError(NumError("ParseInt", Nines21, "ErrRange"))
    /\ rec[2] = Preset("int8")
    /\ rec[1] # rec0[1]

\* The text the parts make when joined by the delimiter.
RECURSIVE Join(_)
Join(parts) ==
    IF Len(parts) = 1 THEN parts[1]
    ELSE parts[1] \o <<DefaultSeperator>> \o Join(Tail(parts))

\* The casts of the parts of a text to the element type of t.
ElementCasts(s, t) ==
    [k \in 1..Len(Split(s)) |-> DefaultCast(Val("string", Split(s)[k]), Elem(t))]

\* The parts whose cast fails.
FailingParts(s, t) ==
    {k \in 1..Len(Split(s)) : ElementCasts(s, t)[k].err # NoError}

\* C6: sequence cast, as claimed.  The parts are the pieces between the
\* commas, in order.  For a sequence of text the parts come back verbatim;
\* for any other element type the result holds the cast of each part in
\* order, unless the cast of some part fails: then the whole cast fails
\* with the first such part's error and no sequence comes back.
SequenceCast ==
    (TextCasted /\ Kind(to) = "slice") =>
        /\ Join(Split(from.v)) = from.v
        /\ \A k \in 1..Len(Split(from.v)) :
              \A n \in 1..Len(Split(from.v)[k]) :
                 Split(from.v)[k][n] # DefaultSeperator
        /\ IF Kind(Elem(to)) = "string"
           THEN /\ out.err = NoError
                /\ out.val.v = SlicePayload(
                      [k \in 1..Len(Split(from.v)) |->
                          Val("string", Split(from.v)[k])])
           ELSE IF FailingParts(from.v, to) # {}
           THEN LET m == CHOOSE k \in FailingParts(from.v, to) :
                            \A j \in FailingParts(from.v, to) : k <= j
                IN out = CastFail(ElementCasts(from.v, to)[m].err)
           ELSE /\ out.err = NoError
                /\ out.val.v = SlicePayload(
                      [k \in 1..Len(Split(from.v)) |->
                          ElementCasts(from.v, to)[k].val])

\* The target type matches no built-in rule of the text cast.
NoBuiltinRule(t) == Kind(t) \notin numbers \cup {"bool", "slice"}

\* C7: custom-decode delegation.  For a target type without a built-in
\* rule: with the capability, the result is the zero value after it has
\* consumed the text, or, when the capability reports failure, an
\* UnmarshalerError with the cause, the text and the target type; without
\* the capability, the unsupported-conversion error.  A sequence of such a
\* type is decoded part by part in the same way.
CustomDecodeDelegation ==
    /\ (TextCasted /\ NoBuiltinRule(to)) =>
          IF ImplementsUnmarshaler(to)
          THEN IF UnmarshalString(to, from.v).err = NoError
               THEN out = CastOK(UnmarshalString(to, from.v).val)
               ELSE out = CastFail(UnmarshalerError(
                             UnmarshalString(to, from.v).err, from.v, to))
          ELSE out = CastFail(ErrUnsupported)
    /\ (TextCasted /\ Kind(to) = "slice" /\ ImplementsUnmarshaler(Elem(to))) =>
          LET parts == Split(from.v)
              bad == {k \in 1..Len(parts) :
                        UnmarshalString(Elem(to), parts[k]).err # NoError}
          IN IF bad = {}
             THEN out = CastOK(Val(to, SlicePayload(
                      [k \in 1..Len(parts) |->
                          UnmarshalString(Elem(to), parts[k]).val])))
             ELSE LET m == CHOOSE k \in bad : \A j \in bad : k <= j
                  IN out = CastFail(UnmarshalerError(
                         UnmarshalString(Elem(to), parts[m]).err,
                         parts[m], Elem(to)))

Admin == <<"a", "d", "m", "i", "n">>

\* C7 witness: "admin" has been cast to Role, the test suite's type.
CustomDecodeWitness ==
    /\ pc = "casted"
    /\ from = Val("string", Admin)
    /\ to = "Role"
    /\ out = CastOK(Val("Role", [Name |-> Admin]))

\* The outcomes Decode may end with.
DecodeOutcomes ==
    {"nil", "InvalidUnmarshalError", "CastError", "UnmarshalTypeError"}

\* C14: cast result assignability, as claimed.  The value of a successful
\* DefaultCast has a type assignable to the requested type, user-named
\* types included; Decode's assignment of a cast result never panics, and
\* Decode always ends with one of its four outcomes.
CastResultAssignable ==
    /\ (pc \in {"casted", "returned"} /\ out.err = NoError) =>
          AssignableTo(out.val.t, to)
    /\ pc # "panic"
    /\ pc = "done" => err.kind \in DecodeOutcomes

\* A numeric value is zero.
NumericZero(x) ==
    IF x.t \in FloatTypes THEN x.v.mag = ZeroMag /\ x.v.frac = <<>>
    ELSE x.v.mag = ZeroMag

\* A cast of a numeric value has been made.
NumericCasted == pc \in {"casted", "returned"} /\ from.t \in numbers

\* C8: numeric to boolean, as claimed: true if and only if the value is
\* non-zero.
NumericToBool ==
    (NumericCasted /\ to = "bool") =>
        out = CastOK(Val("bool", ~NumericZero(from)))

\* s is an integer in base-10 digits, with a minus sign when negative.
DecimalText(s) ==
    LET body == IF s # <<>> /\ s[1] = "-" THEN Tail(s) ELSE s
    IN body # <<>> /\ \A k \in 1..Len(body) : body[k] \in Digits

\* C9: numeric to text, as claimed: an integer base-10 decimal
\* representation, for floating-point values too.
NumericToText ==
    (NumericCasted /\ to = "string") =>
        /\ out.err = NoError
        /\ out.val.t = "string"
        /\ DecimalText(out.val.v)

\* s is the canonical decimal form of an integer: no plus sign, no leading
\* zeros, no negative zero.
CanonicalText(s, signed) ==
    /\ IntegerText(s, signed)
    /\ s[1] # "+"
    /\ s = <<"0">> \/ DigitsOf(s, signed)[1] # "0"

\* C10: numeric round-trip.  The canonical decimal text of a value of an
\* integer type casts to that type, and the result casts back to the same
\* text.
NumericRoundTrip ==
    (/\ TextCasted
     /\ to \in IntegerKinds
     /\ CanonicalText(from.v, to \in IntTypes)
     /\ InRange(IntegerOf(from.v, to \in IntTypes), to))
       => /\ out.err = NoError
          /\ out.val.t = to
          /\ pc = "returned" => back = CastOK(Val("string", from.v))

\* C10 witness: the smallest 64-bit value has gone to int64 and back.
NumericRoundTripWitness ==
    /\ pc = "returned"
    /\ to = "int64"
    /\ from = Val("string", <<"-">> \o MinIntMag(64))
    /\ out.val = Val("int64", IntPayload(TRUE, MinIntMag(64)))
    /\ back.val = from

\* -------------------------------------------------------- properties: Pipe
\* The record as it was when scanner n of the Pipe was invoked.
Before(n) == IF n = 1 THEN ZeroRecord ELSE hist[n - 1].rec

\* Scanner n of the Pipe, which has returned, populated field j.
PopulatedBy(n, j) == hist[n].rec[j] # Before(n)[j]

\* Pipe.Scan has returned the error of its scanner pos.
PipeFailed == pc = "piped" /\ err # NoError

\* The scanners run strictly in the given order, each invoked only after
\* every scanner before it returned no error; Pipe.Scan returns the first
\* scanner error, with no later scanner invoked, and returns no error only
\* if every scanner was invoked and succeeded.
PipeOrder ==
    /\ pos \in 0..Len(pipe)
    /\ \A n \in 1..Len(hist) : hist[n].scanner = n
    /\ Len(hist) \in {pos - 1, pos}
    /\ pc \in {"call", "loop", "done", "panic"} => Len(hist) = pos - 1
    /\ \A n \in 1..(pos - 1) : n <= Len(hist) /\ hist[n].err = NoError
    /\ PipeFailed => Len(hist) = pos /\ hist[pos].err = err
    /\ (pc = "piped" /\ err = NoError) =>
          /\ Len(hist) = Len(pipe)
          /\ \A n \in 1..Len(pipe) : hist[n].err = NoError

\* The failing scanner assigned field j before it failed.
AssignedByFailing(j) == j < idx /\ Looked(j) /\ Takes(j, Lookup(j))

\* C13, as claimed: the order of the scanners and the error returned, and
\* on an error every field that an earlier scanner populated holds the
\* value the earlier scanners left in it.
PipeOrderAndFieldsKept ==
    /\ PipeOrder
    /\ PipeFailed =>
          \A j \in 1..Len(fields) :
             (\E n \in 1..(pos - 1) : PopulatedBy(n, j))
                => rec[j] = Before(pos)[j]

\* C13, amended: the order of the scanners and the error returned, and on
\* an error every field holds the value the earlier scanners left in it,
\* unless the failing scanner itself assigned the field before it failed:
\* then the field holds the value the failing scanner decoded.
PipeOrderAndNoRollback ==
    /\ PipeOrder
    /\ PipeFailed =>
          \A j \in 1..Len(fields) :
             IF AssignedByFailing(j)
             THEN rec[j] = Taken(j, Lookup(j))
             ELSE rec[j] = Before(pos)[j]

\* C13 witness: the second of three scanners failed at field C; Pipe.Scan
\* returned its error without invoking the third; field A, populated by
\* the first scanner, holds that value, and field B, which the failing
\* scanner assigned before it failed, holds the failing scanner's value.
PipeNoRollbackWitness ==
    /\ PipeFailed
    /\ Len(pipe) = 3
    /\ pos = 2
    /\ Len(hist) = 2
    /\ idx = 3
    /\ PopulatedBy(1, 1)
    /\ rec[1] = hist[1].rec[1]
    /\ AssignedByFailing(2)
    /\ rec[2] # hist[1].rec[2]
    /\ err.kind = "UnmarshalTypeError"

=============================================================================
